---- MODULE Spec2Model ----
(***************************************************************************)
(* Model of the math-worksheet grader: the ImageUploader component (file   *)
(* selection, resize, JPEG export), the Home page (display state, the      *)
(* gradeImage fetch, getBoxStyle) and the POST /api/grade route (input     *)
(* check, inference call, fence stripping, JSON parse, response).          *)
(*                                                                         *)
(* A text is a sequence of characters, so that the route's regex           *)
(* replacements, trim, split and JSON.parse work on it as the code does.   *)
(* A run of characters that no operation looks into (a key name, a         *)
(* message, a base64 payload) is written as one element.  JavaScript       *)
(* values are tagged records [t, v]; a string's v is its text.             *)
(***************************************************************************)
EXTENDS Integers, Sequences, FiniteSets, TLC

(***************************************************************************)
(* JavaScript / JSON values                                                *)
(***************************************************************************)
Undefined == [t |-> "undefined", v |-> <<>>]
JNull == [t |-> "null", v |-> <<>>]
JBool(b) == [t |-> "bool", v |-> b]
JNum(n) == [t |-> "num", v |-> n]
JStr(cs) == [t |-> "str", v |-> cs]
JArr(vs) == [t |-> "arr", v |-> vs]
JObj(ms) == [t |-> "obj", v |-> ms]

\* JavaScript truthiness, as used by !image, data.error || ..., !imageSrc.
Truthy(x) ==
    CASE x.t = "undefined" -> FALSE
      [] x.t = "null" -> FALSE
      [] x.t = "bool" -> x.v
      [] x.t = "num" -> x.v # 0
      [] x.t = "str" -> x.v # <<>>
      [] OTHER -> TRUE

\* Array.isArray
IsArray(x) == x.t = "arr"

RECURSIVE IndexOfKey(_, _, _)
IndexOfKey(ms, k, i) ==
    IF i > Len(ms) THEN 0
    ELSE IF ms[i][1] = k THEN i
    ELSE IndexOfKey(ms, k, i + 1)

\* Property read obj.k: undefined when the property is absent or the value has
\* no own properties.
GetProp(x, k) ==
    IF x.t # "obj" THEN Undefined
    ELSE LET i == IndexOfKey(x.v, k, 1)
         IN IF i = 0 THEN Undefined ELSE x.v[i][2]

HasProp(x, k) == x.t = "obj" /\ IndexOfKey(x.v, k, 1) # 0

\* Object member definition during parsing: a repeated key keeps its first
\* position and takes the last value.
PutMember(ms, k, val) ==
    LET i == IndexOfKey(ms, k, 1)
    IN IF i = 0 THEN Append(ms, <<k, val>>)
       ELSE [ms EXCEPT ![i] = <<k, val>>]

(***************************************************************************)
(* Text primitives: String.prototype.replace with a global literal regex,  *)
(* trim, split(',')[1].                                                    *)
(***************************************************************************)
Whitespace == {" ", "\n", "\t"}

StartsWith(s, pat) ==
    Len(s) >= Len(pat) /\ SubSeq(s, 1, Len(pat)) = pat

MatchAt(s, i, lit) ==
    i >= 1 /\ i + Len(lit) - 1 <= Len(s) /\ SubSeq(s, i, i + Len(lit) - 1) = lit

\* The place of the leftmost match of pat in s, 0 when there is none.
FirstMatch(s, pat) ==
    LET places == {i \in 1..Len(s) : MatchAt(s, i, pat)}
    IN IF places = {} THEN 0
       ELSE CHOOSE i \in places : \A k \in places : i <= k

\* s.replace(/pat/g, ''): left to right, non-overlapping matches removed.
RECURSIVE RemoveAll(_, _)
RemoveAll(s, pat) ==
    LET i == FirstMatch(s, pat)
    IN IF i = 0 THEN s
       ELSE SubSeq(s, 1, i - 1)
                \o RemoveAll(SubSeq(s, i + Len(pat), Len(s)), pat)

RECURSIVE TrimStart(_)
TrimStart(s) ==
    IF s # <<>> /\ Head(s) \in Whitespace THEN TrimStart(Tail(s)) ELSE s

RECURSIVE TrimEnd(_)
TrimEnd(s) ==
    IF s # <<>> /\ s[Len(s)] \in Whitespace
    THEN TrimEnd(SubSeq(s, 1, Len(s) - 1))
    ELSE s

Trim(s) == TrimEnd(TrimStart(s))

RECURSIVE IndexOfChar(_, _, _)
IndexOfChar(s, c, i) ==
    IF i > Len(s) THEN 0
    ELSE IF s[i] = c THEN i
    ELSE IndexOfChar(s, c, i + 1)

\* s.split(',')[1]: the text between the first and the second comma, undefined
\* when s holds no comma.
SplitCommaSecond(s) ==
    LET i == IndexOfChar(s, ",", 1)
    IN IF i = 0 THEN Undefined
       ELSE LET j == IndexOfChar(s, ",", i + 1)
            IN JStr(SubSeq(s, i + 1, IF j = 0 THEN Len(s) ELSE j - 1))

(***************************************************************************)
(* JSON.parse over the model's alphabet (no backslash escapes, integer     *)
(* numbers): a recursive-descent parser returning [ok, val, next].         *)
(***************************************************************************)
Digits == {"0", "1", "2", "3", "4", "5", "6", "7", "8", "9"}

DigitVal(c) ==
    CASE c = "0" -> 0 [] c = "1" -> 1 [] c = "2" -> 2 [] c = "3" -> 3
      [] c = "4" -> 4 [] c = "5" -> 5 [] c = "6" -> 6 [] c = "7" -> 7
      [] c = "8" -> 8 [] c = "9" -> 9

At(s, i) == IF i >= 1 /\ i <= Len(s) THEN s[i] ELSE "EOF"

RECURSIVE SkipWs(_, _)
SkipWs(s, i) ==
    IF At(s, i) \in Whitespace THEN SkipWs(s, i + 1) ELSE i

ParseFail == [ok |-> FALSE, val |-> Undefined, next |-> 0]
ParseOk(val, n) == [ok |-> TRUE, val |-> val, next |-> n]

\* i is just past the opening quote.
RECURSIVE ScanString(_, _, _)
ScanString(s, i, acc) ==
    IF i > Len(s) THEN ParseFail
    ELSE IF s[i] = "\"" THEN ParseOk(JStr(acc), i + 1)
    ELSE IF s[i] \in {"\n", "\t"} THEN ParseFail
    ELSE ScanString(s, i + 1, Append(acc, s[i]))

RECURSIVE ScanDigits(_, _, _)
ScanDigits(s, i, n) ==
    IF At(s, i) \in Digits
    THEN ScanDigits(s, i + 1, 10 * n + DigitVal(s[i]))
    ELSE [val |-> n, next |-> i]

ScanNumber(s, i) ==
    LET neg == At(s, i) = "-"
        j == IF neg THEN i + 1 ELSE i
    IN IF At(s, j) \notin Digits THEN ParseFail
       ELSE IF s[j] = "0" THEN ParseOk(JNum(0), j + 1)
       ELSE LET d == ScanDigits(s, j, 0)
            IN ParseOk(JNum(IF neg THEN 0 - d.val ELSE d.val), d.next)

LitNull == <<"n", "u", "l", "l">>
LitTrue == <<"t", "r", "u", "e">>
LitFalse == <<"f", "a", "l", "s", "e">>

RECURSIVE ParseValue(_, _)
RECURSIVE ParseElems(_, _, _)
RECURSIVE ParseMembers(_, _, _)

ParseValue(s, i) ==
    LET j == SkipWs(s, i)
        c == At(s, j)
    IN CASE c = "[" ->
              LET k == SkipWs(s, j + 1)
              IN IF At(s, k) = "]" THEN ParseOk(JArr(<<>>), k + 1)
                 ELSE ParseElems(s, k, <<>>)
         [] c = "{" ->
              LET k == SkipWs(s, j + 1)
              IN IF At(s, k) = "}" THEN ParseOk(JObj(<<>>), k + 1)
                 ELSE ParseMembers(s, k, <<>>)
         [] c = "\"" -> ScanString(s, j + 1, <<>>)
         [] c = "-" \/ c \in Digits -> ScanNumber(s, j)
         [] c = "n" -> IF MatchAt(s, j, LitNull) THEN ParseOk(JNull, j + 4)
                       ELSE ParseFail
         [] c = "t" -> IF MatchAt(s, j, LitTrue)
                       THEN ParseOk(JBool(TRUE), j + 4)
                       ELSE ParseFail
         [] c = "f" -> IF MatchAt(s, j, LitFalse)
                       THEN ParseOk(JBool(FALSE), j + 5)
                       ELSE ParseFail
         [] OTHER -> ParseFail

ParseElems(s, i, acc) ==
    LET r == ParseValue(s, i)
    IN IF ~r.ok THEN ParseFail
       ELSE LET k == SkipWs(s, r.next)
            IN IF At(s, k) = "," THEN ParseElems(s, k + 1, Append(acc, r.val))
               ELSE IF At(s, k) = "]"
                    THEN ParseOk(JArr(Append(acc, r.val)), k + 1)
                    ELSE ParseFail

ParseMembers(s, i, acc) ==
    LET j == SkipWs(s, i)
    IN IF At(s, j) # "\"" THEN ParseFail
       ELSE LET key == ScanString(s, j + 1, <<>>)
            IN IF ~key.ok THEN ParseFail
               ELSE LET c == SkipWs(s, key.next)
                    IN IF At(s, c) # ":" THEN ParseFail
                       ELSE LET r == ParseValue(s, c + 1)
                            IN IF ~r.ok THEN ParseFail
                               ELSE LET k == SkipWs(s, r.next)
                                        ms == PutMember(acc, key.val.v, r.val)
                                    IN IF At(s, k) = ","
                                       THEN ParseMembers(s, k + 1, ms)
                                       ELSE IF At(s, k) = "}"
                                            THEN ParseOk(JObj(ms), k + 1)
                                            ELSE ParseFail

\* JSON.parse(s): [ok |-> FALSE] stands for the SyntaxError it throws.
JSONParse(s) ==
    LET r == ParseValue(s, 1)
    IN IF r.ok /\ SkipWs(s, r.next) = Len(s) + 1
       THEN [ok |-> TRUE, val |-> r.val]
       ELSE [ok |-> FALSE, val |-> Undefined]

(***************************************************************************)
(* Characters and texts used as inputs                                     *)
(***************************************************************************)
\* The backquote character (the lexer admits none inside a string literal).
BQ == "BQ"
Q == "\""

Quoted(s) == <<Q>> \o s \o <<Q>>
Member(k, valText) == Quoted(<<k>>) \o <<":">> \o valText

\* The five required fields of the response schema.
RequiredFields ==
    {<<"lineNumber">>, <<"latex">>, <<"isCorrect">>, <<"explanation">>,
     <<"boundingBox">>}

ResultText(line, latex, correct, explanation, box) ==
    <<"{">> \o Member("lineNumber", line) \o <<",">>
            \o Member("latex", Quoted(latex)) \o <<",">>
            \o Member("isCorrect", correct) \o <<",">>
            \o Member("explanation", Quoted(explanation)) \o <<",">>
            \o Member("boundingBox", box) \o <<"}">>

BoxA == <<"[", "0", ",", "0", ",", "1", "0", "0", ",", "5", "0", "0", "]">>
BoxB == <<"[", "1", "0", "0", ",", "0", ",", "2", "0", "0", ",", "5", "0", "0", "]">>
ResultA == ResultText(<<"1">>, <<"2+2=4">>, LitTrue, <<>>, BoxA)
ResultB == ResultText(<<"2">>, <<"4-1=2">>, LitFalse, <<"4-1 is 3">>, BoxB)
\* A conforming result whose latex holds three backquotes.
ResultTicks == ResultText(<<"1">>, <<BQ, BQ, BQ, "x">>, LitTrue, <<>>, BoxA)

TextEmpty == <<>>
TextEmptyArray == <<"[", "]">>
TextOne == <<"[">> \o ResultA \o <<"]">>
TextTwo == <<"[">> \o ResultA \o <<",", " ">> \o ResultB \o <<"]">>
TextTicks == <<"[">> \o ResultTicks \o <<"]">>
TextMissingField ==
    <<"[", "{">> \o Member("lineNumber", <<"1">>) \o <<",">>
                 \o Member("latex", Quoted(<<"x">>)) \o <<"}", "]">>
TextNumbers == <<"[", "1", ",", "2", "]">>
TextObject == <<"{", "}">>
TextNumber == <<"4", "2">>
TextString == Quoted(<<"ok">>)
TextNull == LitNull
TextTruncated == <<"[", "{">> \o Member("lineNumber", <<"1">>) \o <<",">>
TextProse == <<"Here is the result:", " ", "[", "]">>

BaseTexts ==
    {TextEmpty, TextEmptyArray, TextOne, TextTwo, TextTicks, TextMissingField,
     TextNumbers, TextObject, TextNumber, TextString, TextNull, TextTruncated,
     TextProse}

\* How the model may wrap its answer.
FenceKinds == {"none", "json", "bare", "padded", "javascript", "upper"}

Wrap(fence, text) ==
    CASE fence = "none" -> text
      [] fence = "json" ->
           <<BQ, BQ, BQ, "json", "\n">> \o text \o <<"\n", BQ, BQ, BQ>>
      [] fence = "bare" ->
           <<BQ, BQ, BQ, "\n">> \o text \o <<"\n", BQ, BQ, BQ>>
      [] fence = "padded" ->
           <<" ", "\n", BQ, BQ, BQ, "json", "\n">> \o text
               \o <<"\n", BQ, BQ, BQ, "\n", " ">>
      [] fence = "javascript" ->
           <<BQ, BQ, BQ, "javascript", "\n">> \o text \o <<"\n", BQ, BQ, BQ>>
      [] fence = "upper" ->
           <<BQ, BQ, BQ, "JSON", "\n">> \o text \o <<"\n", BQ, BQ, BQ>>

\* What the inference call can come back with: a rejection carrying a message
\* (possibly empty), a response without text, or a response with text.
NoOutcome ==
    [kind |-> "none", base |-> <<>>, fence |-> "none", text |-> Undefined,
     message |-> <<>>]

Outcomes ==
    {[kind |-> "reject", base |-> <<>>, fence |-> "none", text |-> Undefined,
      message |-> m] : m \in {<<>>, <<"quota exceeded">>}}
    \cup {[kind |-> "resolve", base |-> <<>>, fence |-> "none",
           text |-> Undefined, message |-> <<>>]}
    \cup {[kind |-> "resolve", base |-> b, fence |-> f,
           text |-> JStr(Wrap(f, b)), message |-> <<>>] :
             b \in BaseTexts, f \in FenceKinds}

\* Data URLs.
DataUrl(mime, payload) == <<"data:", mime, ";base64", ",">> \o payload
EmptyDataUrl == <<"data:", ",">>
DeclaredMime(url) == IF Len(url) >= 2 /\ url[1] = "data:" THEN url[2] ELSE ""
ImageMimes == {"image/jpeg", "image/png"}

\* JSON.stringify({ image: base64Image }) for a data URL (no character of it
\* needs escaping).
ClientBody(url) == <<"{">> \o Member("image", Quoted(url)) \o <<"}">>

\* Bodies an HTTP client may post to the route.
BodyGarbage == <<"image=AB">>
BodyNull == LitNull
BodyNoImage == <<"{", "}">>
BodyEmptyImage == <<"{">> \o Member("image", Quoted(<<>>)) \o <<"}">>
BodyNullImage == <<"{">> \o Member("image", LitNull) \o <<"}">>
BodyNumberImage == <<"{">> \o Member("image", <<"5">>) \o <<"}">>
BodyFalseImage == <<"{">> \o Member("image", LitFalse) \o <<"}">>
BodyArray == <<"[", "]">>
BodyNoComma == ClientBody(<<"AB">>)
BodyJpeg == ClientBody(DataUrl("image/jpeg", <<"AB">>))
BodyText == ClientBody(DataUrl("text/plain", <<"AB">>))

Bodies ==
    {BodyGarbage, BodyNull, BodyNoImage, BodyEmptyImage, BodyNullImage,
     BodyNumberImage, BodyFalseImage, BodyArray, BodyNoComma, BodyJpeg,
     BodyText}

(***************************************************************************)
(* POST /api/grade: the pure parts                                         *)
(***************************************************************************)
FenceJson == <<BQ, BQ, BQ, "json">>
Fence == <<BQ, BQ, BQ>>

\* outputText.replace(/(fence)json/g, '').replace(/(fence)/g, '').trim()
CleanJson(text) == Trim(RemoveAll(RemoveAll(text, FenceJson), Fence))

\* The try block around JSON.parse: ok = FALSE is the catch branch
\* (a SyntaxError of JSON.parse, or the TypeError of undefined.replace).
ParseAIResponse(outputText) ==
    IF outputText.t # "str" THEN [ok |-> FALSE, val |-> Undefined]
    ELSE JSONParse(CleanJson(outputText.v))

MsgNoImage == <<"No image data provided">>
MsgParse == <<"Failed to parse AI response. Please try again.">>
MsgInternal == <<"Internal Server Error">>
MsgSyntax == <<"Unexpected token in JSON">>
MsgDestructure == <<"Cannot destructure property 'image' of null">>
MsgSplit == <<"image.split is not a function">>

NoResponse == [status |-> 0, error |-> Undefined, results |-> Undefined]
ErrorResponse(status, msg) ==
    [status |-> status, error |-> JStr(msg), results |-> Undefined]
ResultsResponse(val) == [status |-> 200, error |-> Undefined, results |-> val]

\* catch (error): error.message || 'Internal Server Error'
CaughtResponse(msg) == ErrorResponse(500, IF msg # <<>> THEN msg ELSE MsgInternal)

\* POST up to the await without the !image check.
PostBeforeInferenceUnchecked(bodyText) ==
    LET parsed == JSONParse(bodyText)
        image == GetProp(parsed.val, <<"image">>)
    IN IF ~parsed.ok THEN [call |-> <<>>, resp |-> CaughtResponse(MsgSyntax)]
       ELSE IF parsed.val.t = "null"
            THEN [call |-> <<>>, resp |-> CaughtResponse(MsgDestructure)]
       ELSE IF image.t # "str"
            THEN [call |-> <<>>, resp |-> CaughtResponse(MsgSplit)]
       ELSE [call |-> <<[mimeType |-> "image/jpeg",
                         data |-> SplitCommaSecond(image.v)]>>,
             resp |-> NoResponse]

\* POST up to the await of generateContent: the response it returns at once,
\* or the inference call it makes.
PostBeforeInference(bodyText) ==
    LET parsed == JSONParse(bodyText)
        image == GetProp(parsed.val, <<"image">>)
    IN IF ~parsed.ok THEN [call |-> <<>>, resp |-> CaughtResponse(MsgSyntax)]
       ELSE IF parsed.val.t = "null"
            THEN [call |-> <<>>, resp |-> CaughtResponse(MsgDestructure)]
       ELSE IF ~Truthy(image)
            THEN [call |-> <<>>, resp |-> ErrorResponse(400, MsgNoImage)]
       ELSE IF image.t # "str"
            THEN [call |-> <<>>, resp |-> CaughtResponse(MsgSplit)]
       ELSE [call |-> <<[mimeType |-> "image/jpeg",
                         data |-> SplitCommaSecond(image.v)]>>,
             resp |-> NoResponse]

\* POST after the await: the response for an inference outcome.
PostAfterInference(out) ==
    IF out.kind = "reject" THEN CaughtResponse(out.message)
    ELSE LET parsed == ParseAIResponse(out.text)
         IN IF ~parsed.ok THEN ErrorResponse(500, MsgParse)
            ELSE ResultsResponse(parsed.val)

(***************************************************************************)
(* ImageUploader and Home: the pure parts                                  *)
(***************************************************************************)
MAX_WIDTH == 1024

\* Math.round(a / b) for a >= 0, b > 0: the nearest integer, a tie upwards.
RoundDiv(a, b) == (2 * a + b) \div (2 * b)

\* The resize logic with Math.floor in place of Math.round.
ResizeDimsFloor(width, height) ==
    IF width > height
    THEN IF width > MAX_WIDTH
         THEN <<MAX_WIDTH, (height * MAX_WIDTH) \div width>>
         ELSE <<width, height>>
    ELSE IF height > MAX_WIDTH
         THEN <<(width * MAX_WIDTH) \div height, MAX_WIDTH>>
         ELSE <<width, height>>

\* The resize logic of img.onload: <<canvas.width, canvas.height>>.
ResizeDims(width, height) ==
    IF width > height
    THEN IF width > MAX_WIDTH
         THEN <<MAX_WIDTH, RoundDiv(height * MAX_WIDTH, width)>>
         ELSE <<width, height>>
    ELSE IF height > MAX_WIDTH
         THEN <<RoundDiv(width * MAX_WIDTH, height), MAX_WIDTH>>
         ELSE <<width, height>>

\* canvas.toDataURL('image/jpeg', QUALITY): a canvas without area exports as
\* "data:,".
ToDataURL(canvas, name) ==
    IF canvas[1] = 0 \/ canvas[2] = 0 THEN EmptyDataUrl
    ELSE DataUrl("image/jpeg", <<name>>)

DigitChar(d) ==
    CASE d = 0 -> "0" [] d = 1 -> "1" [] d = 2 -> "2" [] d = 3 -> "3"
      [] d = 4 -> "4" [] d = 5 -> "5" [] d = 6 -> "6" [] d = 7 -> "7"
      [] d = 8 -> "8" [] d = 9 -> "9"

RECURSIVE NatToText(_)
NatToText(n) ==
    IF n < 10 THEN <<DigitChar(n)>>
    ELSE NatToText(n \div 10) \o <<DigitChar(n % 10)>>

\* String(n / 10) for an integer n: the decimal text of the quotient.
TenthToText(n) ==
    LET a == IF n < 0 THEN 0 - n ELSE n
        whole == NatToText(a \div 10)
        frac == IF a % 10 = 0 THEN <<>> ELSE <<".", DigitChar(a % 10)>>
    IN (IF n < 0 THEN <<"-">> ELSE <<>>) \o whole \o frac

Percent(n) == TenthToText(n) \o <<"%">>

\* getBoxStyle with the far edges in place of the extents.
GetBoxStyleEdges(box) ==
    [top |-> Percent(box[1]),
     left |-> Percent(box[2]),
     height |-> Percent(box[3]),
     width |-> Percent(box[4])]

\* getBoxStyle([ymin, xmin, ymax, xmax])
GetBoxStyle(box) ==
    [top |-> Percent(box[1]),
     left |-> Percent(box[2]),
     height |-> Percent(box[3] - box[1]),
     width |-> Percent(box[4] - box[2])]

\* The page's body: what the overlay shows for the display state.  results.map
\* throws for a truthy value that is no array, and getBoxStyle for a result
\* without a boundingBox array.
RenderOverlay(src, loading, res) ==
    IF ~Truthy(src) \/ loading \/ ~Truthy(res)
    THEN [crashed |-> FALSE, boxes |-> <<>>]
    ELSE IF ~IsArray(res)
              \/ \E i \in 1..Len(res.v) :
                     ~IsArray(GetProp(res.v[i], <<"boundingBox">>))
         THEN [crashed |-> TRUE, boxes |-> <<>>]
         ELSE [crashed |-> FALSE,
               boxes |-> [i \in 1..Len(res.v) |->
                   LET b == GetProp(res.v[i], <<"boundingBox">>).v
                   IN GetBoxStyle([k \in 1..Len(b) |-> b[k].v])]]

MsgInvalidFile == "Please select a valid image file"
MsgFetch == <<"Failed to fetch">>
MsgGrade == <<"Failed to grade image">>
MsgWrong == <<"Something went wrong">>

(***************************************************************************)
(* Bounds and inputs of the state machine                                  *)
(***************************************************************************)
\* File selections handled by the uploader in one run.
MaxSelections == 2
\* Submissions made by direct calls of handleImageProcessed in one run.
MaxSubmissions == 2
\* Source dimensions: 1..DimLow, MAX_WIDTH -/+ DimNear, 2 * MAX_WIDTH + 0..DimNear
DimLow == 3
DimNear == 2
\* Bounding-box coordinates: the multiples of CoordStep up to the scale.
CoordStep == 333

Dims ==
    (1..DimLow) \cup ((MAX_WIDTH - DimNear)..(MAX_WIDTH + DimNear))
        \cup {2 * MAX_WIDTH + k : k \in 0..DimNear} \cup {3000, 4000}

Coords ==
    {k * CoordStep : k \in 0..(1000 \div CoordStep)} \cup {0, 5, 500, 600, 1000}

File(name, type, readable, decodable, w, h) ==
    [name |-> name, type |-> type, readable |-> readable,
     decodable |-> decodable, w |-> w, h |-> h]

NoFile == File("", <<>>, FALSE, FALSE, 0, 0)

Files ==
    {File("notes", <<"text/", "plain">>, TRUE, FALSE, 0, 0),
     File("photo", <<"image/", "png">>, TRUE, TRUE, 800, 600),
     File("scan", <<"image/", "jpeg">>, TRUE, TRUE, 3000, 4000),
     File("strip", <<"image/", "png">>, TRUE, TRUE, 4000, 1),
     File("broken", <<"image/", "png">>, TRUE, FALSE, 0, 0),
     File("gone", <<"image/", "jpeg">>, FALSE, FALSE, 0, 0)}

\* Outcomes of the inference call explored with the page: no fence variants.
PageOutcomes == {o \in Outcomes : o.fence = "none"}
\* Outcomes explored with concurrent submissions.
FewOutcomes ==
    {o \in Outcomes :
        \/ o.kind = "reject" /\ o.message # <<>>
        \/ o.kind = "resolve" /\ o.fence = "none"
              /\ o.base \in {TextOne, TextEmptyArray}}

(***************************************************************************)
(* State                                                                   *)
(***************************************************************************)
VARIABLES
    imageSrc,       \* Home: useState<string | null>
    results,        \* Home: useState<GradingResult[] | null>
    isLoading,      \* Home: useState(false)
    error,          \* Home: useState<string | null>
    isProcessing,   \* ImageUploader: useState(false), of the mounted instance
    dialogOpen,     \* the browser's file picker, opened by triggerUpload
    mountGen,       \* which instance of ImageUploader is mounted
    selections,     \* change events handled so far
    jobs,           \* file reads / image decodes started by handleFileChange
    alerts,         \* alert() messages shown
    reqs,           \* requests to /api/grade, each with its place in POST
    shown,          \* history: the request whose completion wrote results, error
    overlay         \* what the page last rendered over the image

homeVars == <<imageSrc, results, isLoading, error>>
uploaderVars == <<isProcessing, dialogOpen, mountGen, selections, jobs, alerts>>
vars ==
    <<imageSrc, results, isLoading, error, isProcessing, dialogOpen, mountGen,
      selections, jobs, alerts, reqs, shown, overlay>>

\* ImageUploader is rendered while !imageSrc.
Mounted == ~Truthy(imageSrc)

\* The button disabled by the uploader's own state alone.
ButtonDisabledOwnState == isProcessing

\* disabled={isLoading || isProcessing} on the upload button
ButtonDisabled == isLoading \/ isProcessing

Request(client, body) ==
    [client |-> client, body |-> body, stage |-> "sent", calls |-> <<>>,
     out |-> NoOutcome, resp |-> NoResponse]

Job(file, gen) ==
    [file |-> file, gen |-> gen, stage |-> "reading", canvas |-> <<0, 0>>,
     delivered |-> FALSE]

NoOverlay == [crashed |-> FALSE, boxes |-> <<>>]

InitIdle ==
    /\ imageSrc = JNull
    /\ results = JNull
    /\ isLoading = FALSE
    /\ error = JNull
    /\ isProcessing = FALSE
    /\ dialogOpen = FALSE
    /\ mountGen = 1
    /\ selections = 0
    /\ jobs = <<>>
    /\ alerts = <<>>
    /\ reqs = <<>>
    /\ shown = [results |-> 0, error |-> 0]
    /\ overlay = NoOverlay

(***************************************************************************)
(* Home                                                                    *)
(***************************************************************************)
\* handleImageProcessed(base64Data, displayUrl), with the synchronous part of
\* gradeImage: setIsLoading(true) and the fetch.
HandleImageProcessed(base64Data, displayUrl) ==
    /\ imageSrc' = JStr(displayUrl)
    /\ results' = JNull
    /\ error' = JNull
    /\ isLoading' = TRUE
    /\ reqs' = Append(reqs, Request("page", ClientBody(base64Data)))
    /\ shown' = [results |-> 0, error |-> 0]

\* gradeImage after the awaits, for a fetch that rejects: catch, finally.
FetchRejects(r) ==
    /\ reqs[r].client = "page"
    /\ reqs[r].stage = "sent"
    /\ error' = JStr(MsgFetch)
    /\ isLoading' = FALSE
    /\ reqs' = [reqs EXCEPT ![r].stage = "settled"]
    /\ shown' = [shown EXCEPT !.error = r]
    /\ UNCHANGED <<imageSrc, results, uploaderVars, overlay>>

\* gradeImage after the awaits, for a response that arrived: throw on !ok,
\* setResults(data.results) otherwise; finally setIsLoading(false).
GradeSettle(r) ==
    /\ reqs[r].client = "page"
    /\ reqs[r].stage = "responded"
    /\ LET data == reqs[r].resp
           ok == data.status \in 200..299
           thrown == IF Truthy(data.error) THEN data.error ELSE JStr(MsgGrade)
       IN IF ok
          THEN /\ results' = data.results
               /\ shown' = [shown EXCEPT !.results = r]
               /\ UNCHANGED error
          ELSE /\ error' = (IF Truthy(thrown) THEN thrown ELSE JStr(MsgWrong))
               /\ shown' = [shown EXCEPT !.error = r]
               /\ UNCHANGED results
    /\ isLoading' = FALSE
    /\ reqs' = [reqs EXCEPT ![r].stage = "settled"]
    /\ UNCHANGED <<imageSrc, uploaderVars, overlay>>

\* handleReset, behind the "Try another" button of the display state; the
\* uploader is mounted afresh.
HandleReset ==
    /\ Truthy(imageSrc)
    /\ imageSrc' = JNull
    /\ results' = JNull
    /\ error' = JNull
    /\ isProcessing' = FALSE
    /\ dialogOpen' = FALSE
    /\ mountGen' = mountGen + 1
    /\ shown' = [results |-> 0, error |-> 0]
    /\ UNCHANGED <<isLoading, selections, jobs, alerts, reqs, overlay>>

\* A call of handleImageProcessed by a caller that does not wait for the
\* previous submission.
SubmitDirect(url) ==
    /\ Len(reqs) < MaxSubmissions
    /\ HandleImageProcessed(url, url)
    /\ UNCHANGED <<uploaderVars, overlay>>

Render ==
    /\ overlay' = RenderOverlay(imageSrc, isLoading, results)
    /\ UNCHANGED <<homeVars, uploaderVars, reqs, shown>>

(***************************************************************************)
(* ImageUploader                                                           *)
(***************************************************************************)
\* triggerUpload: a click on the enabled button opens the file picker.
TriggerUpload ==
    /\ Mounted
    /\ ~ButtonDisabled
    /\ ~dialogOpen
    /\ selections < MaxSelections
    /\ dialogOpen' = TRUE
    /\ UNCHANGED <<homeVars, isProcessing, mountGen, selections, jobs, alerts,
                   reqs, shown, overlay>>

\* handleFileChange up to the registration of reader.onload.  The statements of
\* its try block only start the read and register callbacks.
HandleFileChange(file) ==
    /\ dialogOpen
    /\ dialogOpen' = FALSE
    /\ selections' = selections + 1
    /\ IF file = NoFile
       THEN UNCHANGED <<isProcessing, jobs, alerts>>
       ELSE IF ~StartsWith(file.type, <<"image/">>)
            THEN /\ alerts' = Append(alerts, MsgInvalidFile)
                 /\ UNCHANGED <<isProcessing, jobs>>
            ELSE /\ isProcessing' = TRUE
                 /\ jobs' = Append(jobs, Job(file, mountGen))
                 /\ UNCHANGED alerts
    /\ UNCHANGED <<homeVars, mountGen, reqs, shown, overlay>>

\* reader.onload: the image element is created and given the data URL.
ReaderOnload(j) ==
    /\ jobs[j].stage = "reading"
    /\ jobs[j].file.readable
    /\ jobs' = [jobs EXCEPT ![j].stage = "decoding"]
    /\ UNCHANGED <<homeVars, isProcessing, dialogOpen, mountGen, selections,
                   alerts, reqs, shown, overlay>>

\* The read fails: the reader fires error, for which no handler is set.
ReaderError(j) ==
    /\ jobs[j].stage = "reading"
    /\ ~jobs[j].file.readable
    /\ jobs' = [jobs EXCEPT ![j].stage = "lost"]
    /\ UNCHANGED <<homeVars, isProcessing, dialogOpen, mountGen, selections,
                   alerts, reqs, shown, overlay>>

\* The decode fails: the image fires error, for which no handler is set.
ImgError(j) ==
    /\ jobs[j].stage = "decoding"
    /\ ~jobs[j].file.decodable
    /\ jobs' = [jobs EXCEPT ![j].stage = "lost"]
    /\ UNCHANGED <<homeVars, isProcessing, dialogOpen, mountGen, selections,
                   alerts, reqs, shown, overlay>>

\* img.onload: resize, draw, export, onImageProcessed, setIsProcessing(false).
\* getContext('2d') may return null.
ImgOnload(j) ==
    /\ jobs[j].stage = "decoding"
    /\ jobs[j].file.decodable
    /\ LET canvas == ResizeDims(jobs[j].file.w, jobs[j].file.h)
           url == ToDataURL(canvas, jobs[j].file.name)
       IN \E ctx \in BOOLEAN :
            /\ jobs' = [jobs EXCEPT ![j].stage = "finished",
                                    ![j].canvas = canvas,
                                    ![j].delivered = ctx]
            /\ IF ctx
               THEN HandleImageProcessed(url, url)
               ELSE UNCHANGED <<homeVars, reqs, shown>>
    /\ isProcessing' = (IF jobs[j].gen = mountGen THEN FALSE ELSE isProcessing)
    /\ UNCHANGED <<dialogOpen, mountGen, selections, alerts, overlay>>

(***************************************************************************)
(* POST /api/grade                                                         *)
(***************************************************************************)
\* POST from its start to its first response or to the inference call.
PostReceive(r) ==
    /\ reqs[r].stage = "sent"
    /\ LET pre == PostBeforeInference(reqs[r].body)
       IN reqs' = [reqs EXCEPT
              ![r].stage = (IF pre.call = <<>> THEN "responded" ELSE "inference"),
              ![r].calls = pre.call,
              ![r].resp = pre.resp]
    /\ UNCHANGED <<homeVars, uploaderVars, shown, overlay>>

\* generateContent settles with one of outs and POST runs to its response.
PostResume(r, outs) ==
    /\ reqs[r].stage = "inference"
    /\ \E out \in outs :
         reqs' = [reqs EXCEPT ![r].stage = "responded",
                              ![r].out = out,
                              ![r].resp = PostAfterInference(out)]
    /\ UNCHANGED <<homeVars, uploaderVars, shown, overlay>>

(***************************************************************************)
(* Specifications                                                          *)
(***************************************************************************)
\* The page as the user drives it: uploader, Home and the route.
Init == InitIdle

Next ==
    \/ TriggerUpload
    \/ \E f \in Files \cup {NoFile} : HandleFileChange(f)
    \/ \E j \in 1..Len(jobs) : ReaderOnload(j)
    \/ \E j \in 1..Len(jobs) : ReaderError(j)
    \/ \E j \in 1..Len(jobs) : ImgOnload(j)
    \/ \E j \in 1..Len(jobs) : ImgError(j)
    \/ \E r \in 1..Len(reqs) : PostReceive(r)
    \/ \E r \in 1..Len(reqs) : PostResume(r, PageOutcomes)
    \/ \E r \in 1..Len(reqs) : GradeSettle(r)
    \/ \E r \in 1..Len(reqs) : FetchRejects(r)
    \/ HandleReset

Spec == Init /\ [][Next]_vars

\* The route alone, called by any HTTP client.
InitRoute ==
    \E b \in Bodies :
        /\ reqs = <<Request("http", b)>>
        /\ imageSrc = JNull
        /\ results = JNull
        /\ isLoading = FALSE
        /\ error = JNull
        /\ isProcessing = FALSE
        /\ dialogOpen = FALSE
        /\ mountGen = 1
        /\ selections = 0
        /\ jobs = <<>>
        /\ alerts = <<>>
        /\ shown = [results |-> 0, error |-> 0]
        /\ overlay = NoOverlay

NextRoute ==
    \/ \E r \in 1..Len(reqs) : PostReceive(r)
    \/ \E r \in 1..Len(reqs) : PostResume(r, Outcomes)

SpecRoute == InitRoute /\ [][NextRoute]_vars

\* Home alone, its handlers called in any interleaving.
NextHome ==
    \/ \E u \in {DataUrl("image/jpeg", <<"first">>),
                 DataUrl("image/jpeg", <<"second">>)} : SubmitDirect(u)
    \/ HandleReset
    \/ \E r \in 1..Len(reqs) : PostReceive(r)
    \/ \E r \in 1..Len(reqs) : PostResume(r, FewOutcomes)
    \/ \E r \in 1..Len(reqs) : GradeSettle(r)
    \/ \E r \in 1..Len(reqs) : FetchRejects(r)

SpecHome == InitIdle /\ [][NextHome]_vars

\* The resize logic on decoded images of the dimensions in Dims.
InitResize ==
    \E w \in Dims, h \in Dims :
        /\ jobs = <<[Job(File("image", <<"image/", "png">>, TRUE, TRUE, w, h), 1)
                        EXCEPT !.stage = "decoding"]>>
        /\ isProcessing = TRUE
        /\ selections = 1
        /\ imageSrc = JNull
        /\ results = JNull
        /\ isLoading = FALSE
        /\ error = JNull
        /\ dialogOpen = FALSE
        /\ mountGen = 1
        /\ alerts = <<>>
        /\ reqs = <<>>
        /\ shown = [results |-> 0, error |-> 0]
        /\ overlay = NoOverlay

NextResize == \E j \in 1..Len(jobs) : ImgOnload(j)

SpecResize == InitResize /\ [][NextResize]_vars

\* The overlay rendered for one graded line with a box over Coords.
BoxResult(box) ==
    JObj(<< <<(<<"lineNumber">>), JNum(1)>>,
            <<(<<"latex">>), JStr(<<"x">>)>>,
            <<(<<"isCorrect">>), JBool(TRUE)>>,
            <<(<<"explanation">>), JStr(<<>>)>>,
            <<(<<"boundingBox">>),
              JArr([k \in 1..4 |-> JNum(box[k])])>> >>)

InitBox ==
    \E ymin \in Coords, xmin \in Coords, ymax \in Coords, xmax \in Coords :
        /\ results = JArr(<<BoxResult(<<ymin, xmin, ymax, xmax>>)>>)
        /\ imageSrc = JStr(DataUrl("image/jpeg", <<"photo">>))
        /\ isLoading = FALSE
        /\ error = JNull
        /\ isProcessing = FALSE
        /\ dialogOpen = FALSE
        /\ mountGen = 1
        /\ selections = 0
        /\ jobs = <<>>
        /\ alerts = <<>>
        /\ reqs = <<>>
        /\ shown = [results |-> 0, error |-> 0]
        /\ overlay = NoOverlay

NextBox == Render

SpecBox == InitBox /\ [][NextBox]_vars

(***************************************************************************)
(* Properties                                                              *)
(***************************************************************************)
Max(a, b) == IF a >= b THEN a ELSE b
Abs(a) == IF a < 0 THEN 0 - a ELSE a

\* x is an integer nearest to num / den (den > 0).
IsNearest(x, num, den) == 2 * Abs(x * den - num) <= den

FinishedJobs == {j \in 1..Len(jobs) : jobs[j].stage = "finished"}

\* C1: resize policy.  A decoded image no larger than MAX_WIDTH keeps its
\* dimensions; otherwise the larger dimension becomes MAX_WIDTH, the other is
\* the source value times MAX_WIDTH / max(W, H) rounded to the nearest integer,
\* and the larger of the new dimensions is MAX_WIDTH (W = H included).
C1_ResizePolicy ==
    \A j \in FinishedJobs :
        LET W == jobs[j].file.w
            H == jobs[j].file.h
            c == jobs[j].canvas
        IN IF Max(W, H) <= MAX_WIDTH
           THEN c = <<W, H>>
           ELSE /\ Max(c[1], c[2]) = MAX_WIDTH
                /\ W >= H => c[1] = MAX_WIDTH /\ IsNearest(c[2], H * MAX_WIDTH, W)
                /\ H >= W => c[2] = MAX_WIDTH /\ IsNearest(c[1], W * MAX_WIDTH, H)

\* An oversize image was resized, its smaller side changed by the rounding.
C1_Witness ==
    \E j \in FinishedJobs :
        /\ jobs[j].file.h > MAX_WIDTH
        /\ jobs[j].file.w < jobs[j].file.h
        /\ jobs[j].canvas[2] = MAX_WIDTH
        /\ jobs[j].canvas[1] # jobs[j].file.w
        /\ jobs[j].canvas[1] * jobs[j].file.h # jobs[j].file.w * MAX_WIDTH

RespondedRequests == {r \in 1..Len(reqs) : reqs[r].stage \in {"responded", "settled"}}

\* The model's output of request r, when the inference call returned text.
ReturnedText(r) == reqs[r].out.kind = "resolve" /\ reqs[r].out.text.t = "str"

\* A model output that is not an array of objects with the five fields.
NonConforming(text) ==
    \/ text = <<>>
    \/ LET p == JSONParse(text)
       IN /\ p.ok
          /\ \/ ~IsArray(p.val)
             \/ \E i \in 1..Len(p.val.v) :
                    \E f \in RequiredFields : ~HasProp(p.val.v[i], f)

\* C2: every non-conforming model output (the empty string, JSON that is no
\* array, an array with an element lacking a required field) gets the
\* 'Failed to parse AI response' 500 response, never a success.
C2_RejectsNonConforming ==
    \A r \in RespondedRequests :
        (ReturnedText(r) /\ NonConforming(reqs[r].out.text.v))
            => reqs[r].resp = ErrorResponse(500, MsgParse)

ValidArrayText(text) == JSONParse(text).ok /\ IsArray(JSONParse(text).val)

\* C3: fence stripping is transparent.  For a valid JSON array text t, the
\* parser's result on t inside a fence equals its result on t alone, and both
\* equal JSON.parse(t).
C3_FenceTransparent ==
    \A r \in RespondedRequests :
        (ReturnedText(r) /\ ValidArrayText(reqs[r].out.base))
            => /\ reqs[r].resp = ResultsResponse(JSONParse(reqs[r].out.base).val)
               /\ ParseAIResponse(JStr(reqs[r].out.base))
                      = JSONParse(reqs[r].out.base)

\* The image field of a request body, undefined for a body without one.
ImageOf(body) == GetProp(JSONParse(body).val, <<"image">>)

ImageMissingOrEmpty(body) ==
    ImageOf(body).t \in {"undefined", "null"} \/ ImageOf(body) = JStr(<<>>)

IsErrorResponse(resp, status) ==
    resp.status = status /\ resp.error.t = "str" /\ resp.results = Undefined

\* C4: a request gets one response of one of three shapes: 400 {error} when
\* the image field is missing or empty, and then no inference call is made;
\* 500 {error} when the inference call fails or its output cannot be parsed;
\* 200 {results} otherwise.
C4_ThreeShapes ==
    \A r \in RespondedRequests :
        LET resp == reqs[r].resp
            failed == reqs[r].out.kind = "reject"
            unparsed == reqs[r].out.kind = "resolve"
                            /\ ~ParseAIResponse(reqs[r].out.text).ok
        IN IF ImageMissingOrEmpty(reqs[r].body)
           THEN IsErrorResponse(resp, 400) /\ reqs[r].calls = <<>>
           ELSE IF failed \/ unparsed
                THEN IsErrorResponse(resp, 500)
                ELSE resp.status = 200 /\ resp.error = Undefined
                         /\ resp.results # Undefined

\* C4 as amended: 400 {error} without an inference call when the body is
\* readable and its image field is missing or falsy; 500 {error} without an
\* inference call when the body is not JSON or is null, or the image is not a
\* string; otherwise one inference call, and 500 {error} when it fails or its
\* output does not pass JSON.parse after the fence stripping, 200 {results}
\* when it does.
C4_ThreeShapesAmended ==
    \A r \in RespondedRequests :
        LET resp == reqs[r].resp
            parsed == JSONParse(reqs[r].body)
            image == ImageOf(reqs[r].body)
            failed == reqs[r].out.kind = "reject"
            unparsed == reqs[r].out.kind = "resolve"
                            /\ ~ParseAIResponse(reqs[r].out.text).ok
        IN IF ~parsed.ok \/ parsed.val.t = "null"
           THEN IsErrorResponse(resp, 500) /\ reqs[r].calls = <<>>
           ELSE IF ~Truthy(image)
           THEN IsErrorResponse(resp, 400) /\ reqs[r].calls = <<>>
           ELSE IF image.t # "str"
           THEN IsErrorResponse(resp, 500) /\ reqs[r].calls = <<>>
           ELSE /\ Len(reqs[r].calls) = 1
                /\ reqs[r].out.kind # "none"
                /\ IF failed \/ unparsed
                   THEN IsErrorResponse(resp, 500)
                   ELSE resp.status = 200 /\ resp.error = Undefined
                            /\ resp.results # Undefined

\* A request without an image was answered 400 and no inference call made.
C4_Witness ==
    \E r \in RespondedRequests :
        /\ ImageMissingOrEmpty(reqs[r].body)
        /\ reqs[r].resp = ErrorResponse(400, MsgNoImage)
        /\ reqs[r].calls = <<>>

\* A data URL that declares a media type other than an image type.
DeclaresNonImage(image) ==
    /\ image.t = "str"
    /\ Len(image.v) >= 3
    /\ image.v[1] = "data:"
    /\ image.v[3] = ";base64"
    /\ image.v[2] \notin ImageMimes

\* C5: a submission whose declared media type is no image type is rejected
\* before any processing and no inference call is made for it, through the
\* uploader's file selection and through the endpoint's image field alike.
C5_NonImageNoInference ==
    /\ \A j \in 1..Len(jobs) : StartsWith(jobs[j].file.type, <<"image/">>)
    /\ \A r \in 1..Len(reqs) :
           DeclaresNonImage(ImageOf(reqs[r].body)) => reqs[r].calls = <<>>

\* The tenths in a percentage text such as "12.3%" or "50%".
PercentTenths(text) ==
    LET neg == At(text, 1) = "-"
        start == IF neg THEN 2 ELSE 1
        whole == ScanDigits(text, start, 0)
        frac == IF At(text, whole.next) = "."
                THEN DigitVal(text[whole.next + 1]) ELSE 0
        a == 10 * whole.val + frac
    IN IF neg THEN 0 - a ELSE a

IsPercent(text) ==
    /\ Len(text) >= 2
    /\ text[Len(text)] = "%"
    /\ \A i \in 1..(Len(text) - 1) : text[i] \in Digits \cup {"."}

\* The bounding box of the single result on display.
ShownBox ==
    LET b == GetProp(results.v[1], <<"boundingBox">>).v
    IN [k \in 1..4 |-> b[k].v]

ValidBox(b) ==
    /\ 0 <= b[1] /\ b[1] < b[3] /\ b[3] <= 1000
    /\ 0 <= b[2] /\ b[2] < b[4] /\ b[4] <= 1000

\* C6: for a box with 0 <= ymin < ymax <= 1000 and 0 <= xmin < xmax <= 1000,
\* getBoxStyle gives top = ymin/10, left = xmin/10, height = (ymax-ymin)/10,
\* width = (xmax-xmin)/10 as percentages; the rectangle lies inside the image
\* and is not empty; (0,0,1000,1000) is the full image and (500,500,600,600)
\* is top 50, left 50, height 10, width 10.
C6_BoxStyle ==
    (overlay.boxes # <<>> /\ ValidBox(ShownBox)) =>
        LET b == ShownBox
            st == overlay.boxes[1]
        IN /\ IsPercent(st.top) /\ IsPercent(st.left)
           /\ IsPercent(st.height) /\ IsPercent(st.width)
           /\ PercentTenths(st.top) = b[1]
           /\ PercentTenths(st.left) = b[2]
           /\ PercentTenths(st.height) = b[3] - b[1]
           /\ PercentTenths(st.width) = b[4] - b[2]
           /\ PercentTenths(st.top) + PercentTenths(st.height) <= 1000
           /\ PercentTenths(st.left) + PercentTenths(st.width) <= 1000
           /\ PercentTenths(st.height) > 0
           /\ PercentTenths(st.width) > 0
           /\ b = <<0, 0, 1000, 1000>> =>
                  st = [top |-> <<"0", "%">>, left |-> <<"0", "%">>,
                        height |-> <<"1", "0", "0", "%">>,
                        width |-> <<"1", "0", "0", "%">>]
           /\ b = <<500, 500, 600, 600>> =>
                  st = [top |-> <<"5", "0", "%">>, left |-> <<"5", "0", "%">>,
                        height |-> <<"1", "0", "%">>,
                        width |-> <<"1", "0", "%">>]

\* A box with a fractional percentage was rendered.
C6_Witness ==
    /\ overlay.boxes # <<>>
    /\ ShownBox = <<5, 500, 600, 1000>>
    /\ overlay.boxes[1].top = <<"0", ".", "5", "%">>

EndedJobs == {j \in 1..Len(jobs) : jobs[j].stage \in {"finished", "lost"}}

\* C7: a file selection that passed the media-type check ends normalization
\* with one outcome: onImageProcessed was called once, or an error was shown
\* to the user and nothing was handed on; either way isProcessing is false
\* again on the uploader that started it.
C7_NormalizationEnds ==
    \A j \in EndedJobs :
        /\ jobs[j].delivered \/ \E i \in 1..Len(alerts) : alerts[i] # MsgInvalidFile
        /\ (Mounted /\ jobs[j].gen = mountGen) => ~isProcessing

PageRequests == {r \in 1..Len(reqs) : reqs[r].client = "page"}
PendingRequests == {r \in PageRequests : reqs[r].stage # "settled"}

\* C8: one in, one out.  Once the request of the image on display has
\* completed, isLoading is false and exactly one outcome is set: results an
\* array and error null, or error a non-empty message and results null; each
\* submission made one request.
C8_OneInOneOut ==
    (Truthy(imageSrc) /\ PageRequests # {} /\ PendingRequests = {}) =>
        /\ ~isLoading
        /\ \/ IsArray(results) /\ error = JNull
           \/ error.t = "str" /\ error.v # <<>> /\ results = JNull
        /\ Cardinality(PageRequests)
               = Cardinality({j \in 1..Len(jobs) : jobs[j].delivered})

\* C9: last submitted wins.  Once every pending call has resolved, the
\* results and the error on display were written by the most recent
\* submission, whatever the order in which the calls resolved.
C9_LastSubmittedWins ==
    (reqs # <<>> /\ PendingRequests = {}) =>
        /\ shown.results \in {0, Len(reqs)}
        /\ shown.error \in {0, Len(reqs)}

ActiveJobs == {j \in 1..Len(jobs) : jobs[j].stage \in {"reading", "decoding"}}

\* C10: through the user interface at most one grade request is in flight,
\* and while one is, no file selection can start: the button is disabled, no
\* file picker is open and no file is being processed, also after handleReset
\* was pressed with the request pending.
C10_OneInFlight ==
    /\ Cardinality(PendingRequests) <= 1
    /\ PendingRequests # {} =>
           /\ ~(Mounted /\ ~ButtonDisabled)
           /\ ~dialogOpen
           /\ ActiveJobs = {}

\* Reset was pressed while the request was pending: the uploader is back on
\* the page with the request still in flight.
C10_Witness == Mounted /\ PendingRequests # {} /\ mountGen > 1

====
